---- MODULE Spec2Model ----
(***************************************************************************)
(* A model of the pull-request dashboard: its GitHub service layer         *)
(* (services/github.ts), with the paginated team-repository and            *)
(* organization-PR fetchers and the Promise.all join of                    *)
(* searchTeamPullRequests (Spec), the construction of the search query     *)
(* (SpecQuery) and the normalisation of a raw item (SpecNormalize); its    *)
(* date utilities (SpecDate); and the caching hook useTeamPullRequests     *)
(* with its consumer PullRequestList (SpecCache, SpecRefresh); and the     *)
(* App component with its stored filter preference (SpecApp).  SpecSearch  *)
(* runs the team call against open and closed pull requests, SpecUser is   *)
(* searchUserPullRequests.                                                 *)
(*                                                                         *)
(* JavaScript runs the handlers of one event-loop turn to completion: the  *)
(* arrival of one page response, the continuation of octokit.paginate, the *)
(* continuation of the fetcher awaiting it, the reaction of Promise.all    *)
(* and the continuation of searchTeamPullRequests are microtasks of the    *)
(* same turn, so each response is one atomic action here.  console.error   *)
(* writes to the console only and is left out.                             *)
(***************************************************************************)
EXTENDS Integers, Sequences, FiniteSets, TLC

VARIABLES
    server,   \* what the remote API holds: server.repos, server.prs (lists)
    fetch,    \* fetch[f]: the promise of getTeamRepositories / searchOrgPullRequests
    out,      \* the promise returned by searchTeamPullRequests
    call,     \* the arguments of the call in progress (<<>> before the call)
    query,    \* the q parameter built by the last query construction
    now,      \* the clock: hours since 1970-01-01T00:00Z
    hist,     \* history: page lengths received, order of settlement
    zone,     \* the time zone of the host the program runs on
    cache,    \* the query cache: cache[key] is the entry (query) of a key
    view,     \* the consumer of useTeamPullRequests and its window
    last,     \* history: the last step of the cache and the fetcher call it made
    localStorage, \* the item stored under STORAGE_KEY (<<>> when there is none)
    app       \* the App component: whether it runs, its days state, the last selection

svcvars == <<server, fetch, out, call, query, now, hist, zone>>

appvars == <<localStorage, app>>

vars == <<server, fetch, out, call, query, now, hist, zone, cache, view, last, localStorage, app>>

(***************************************************************************)
(* Bounds of the model.                                                    *)
(***************************************************************************)
MaxTeamRepos == 2      \* short team repository lists hold at most this many
MaxPRs == 2            \* short organization PR lists hold at most this many
MaxFullPages == 2      \* long lists hold up to this many full pages

(***************************************************************************)
(* Program constants.                                                      *)
(***************************************************************************)
PerPage == 100         \* per_page of every request

Fetches == {"repos", "prs"}
Other(f) == IF f = "repos" THEN "prs" ELSE "repos"

Orgs == {"acme", "pinggolf"}
Teams == {"core"}
RepoNames == {"a", "b", "c"}

\* days: number | null.  null is <<>>, a number n is <<n>>.
DaysNull == <<>>
DaysOf(n) == <<n>>
IsNullDays(days) == days = <<>>

\* item.user may be absent: <<>>, or <<u>> for a user record u.
NoUser == <<>>

ErrorKinds == {"NetworkError"}
NoError == [src |-> "none", page |-> 0, kind |-> "none"]
ApiError(f, p, k) == [src |-> f, page |-> p, kind |-> k]

\* The cache and its consumer before the application has rendered.
NoCache == <<>>
NoView == [mounted |-> FALSE, focused |-> TRUE, timer |-> 0, params |-> <<>>, other |-> <<>>]
NoStep == [op |-> "none", called |-> <<>>]

\* localStorage.getItem returns null for a key without item.
NoItem == <<>>

\* The App component before it is rendered.
NoApp == [running |-> FALSE, days |-> <<>>, selected |-> <<>>]

(***************************************************************************)
(* Generic helpers.                                                        *)
(***************************************************************************)
Min(a, b) == IF a < b THEN a ELSE b

Range(s) == {s[i] : i \in 1..Len(s)}

RECURSIVE SumSeq(_)
SumSeq(s) == IF s = <<>> THEN 0 ELSE Head(s) + SumSeq(Tail(s))

\* Array.prototype.slice(-n): the last n elements (all of them when shorter).
SliceLast(s, n) == SubSeq(s, IF Len(s) > n THEN Len(s) - n + 1 ELSE 1, Len(s))

(***************************************************************************)
(* Dates (utils/dateUtils).  An instant is a number of hours since the     *)
(* epoch, in UTC.                                                          *)
(***************************************************************************)
\* The proleptic Gregorian date <<year, month, day>> of a day number counted
\* from 1970-01-01, as Date.prototype.toISOString computes it (UTC).
CivilFromDays(z0) ==
    LET z   == z0 + 719468
        era == z \div 146097
        doe == z - era * 146097
        yoe == (doe - doe \div 1460 + doe \div 36524 - doe \div 146096) \div 365
        doy == doe - (365 * yoe + yoe \div 4 - yoe \div 100)
        mp  == (5 * doy + 2) \div 153
        d   == doy - (153 * mp + 2) \div 5 + 1
        m   == IF mp < 10 THEN mp + 3 ELSE mp - 9
        y   == yoe + era * 400 + (IF m <= 2 THEN 1 ELSE 0)
    IN  <<y, m, d>>

Pad2(n) == IF n < 10 THEN "0" \o ToString(n) ELSE ToString(n)

Pad4(n) == IF n < 10 THEN "000" \o ToString(n)
           ELSE IF n < 100 THEN "00" \o ToString(n)
           ELSE IF n < 1000 THEN "0" \o ToString(n)
           ELSE ToString(n)

\* date.toISOString().split('T'): <<date part, time part>>.
ToISOStringSplitT(t) ==
    LET ymd == CivilFromDays(t \div 24)
        h   == t % 24
    IN  << Pad4(ymd[1]) \o "-" \o Pad2(ymd[2]) \o "-" \o Pad2(ymd[3]),
           Pad2(h) \o ":00:00.000Z" >>

formatDateForGitHub(date) == ToISOStringSplitT(date)[1]

\* getDaysAgo(days) at clock reading t: the instant `days` days earlier, at
\* the same time of day (its tests: 2024-11-14T12:00Z less 7 days is
\* 2024-11-07T12:00Z).  The clock is read in UTC; daylight-saving shifts of
\* a local time zone are not modelled.
getDaysAgo(t, days) == t - days * 24

\* A time zone: its standard and daylight-saving offsets from UTC in hours
\* and the spans <<first hour, first hour after>> (UTC) of daylight-saving
\* time of 2023 and 2024.
UTCZone == [name |-> "UTC", std |-> 0, dst |-> 0, spans |-> {}]

LosAngeles == [name |-> "America/Los_Angeles", std |-> -8, dst |-> -7,
               spans |-> {<<466282, 471993>>, <<475018, 480729>>}]

Berlin == [name |-> "Europe/Berlin", std |-> 1, dst |-> 2,
           spans |-> {<<466609, 471817>>, <<475513, 480553>>}]

Zones == {UTCZone, LosAngeles, Berlin}

InDst(z, u) == \E s \in z.spans : s[1] <= u /\ u < s[2]

\* LocalTime(t) of ECMAScript: the reading of the host's wall clock at the
\* instant u, as a number of hours.
LocalTime(z, u) == u + (IF InDst(z, u) THEN z.dst ELSE z.std)

\* UTC(t) of ECMAScript: the instant of a wall-clock reading.  A reading
\* that the clock shows twice (the hour repeated when daylight-saving time
\* ends) or never (the hour skipped when it begins) is interpreted with the
\* offset in force before the transition.
UTCOfLocal(z, local) ==
    IF InDst(z, local - z.dst) THEN local - z.dst ELSE local - z.std

\* date.setDate(date.getDate() - n): the date's local calendar day moved
\* back n days, its local time of day kept.
SetDateBack(z, t, n) == UTCOfLocal(z, LocalTime(z, t) - n * 24)

\* const date = new Date(); date.setDate(date.getDate() - 14); return date
getTwoWeeksAgo(t) == SetDateBack(zone, t, 14)

\* days_from_civil: the day number of the Gregorian date y-m-d.
DaysFromCivil(y0, m, d) ==
    LET y   == IF m <= 2 THEN y0 - 1 ELSE y0
        era == y \div 400
        yoe == y - era * 400
        doy == (153 * (IF m > 2 THEN m - 3 ELSE m + 9) + 2) \div 5 + d - 1
        doe == yoe * 365 + yoe \div 4 - yoe \div 100 + doy
    IN  era * 146097 + doe - 719468

\* The fields of the ISO 8601 string 'YYYY-MM-DDTHH:MM:SSZ' of an instant
\* given in seconds since the epoch (what the GitHub API sends as
\* created_at).
ISOFields(sec) ==
    LET ymd == CivilFromDays(sec \div 86400)
        r   == sec % 86400
    IN  [y |-> ymd[1], m |-> ymd[2], d |-> ymd[3],
         h |-> r \div 3600, mi |-> (r % 3600) \div 60, s |-> r % 60]

\* new Date(dateString) of such a string: seconds since the epoch.
ParseDate(f) ==
    ((DaysFromCivil(f.y, f.m, f.d) * 24 + f.h) * 60 + f.mi) * 60 + f.s

\* The time value of an instant of the clock, in seconds.
TimeValue(t) == t * 3600

isWithinTwoWeeksExclusive(dateString, t) ==
    ParseDate(dateString) > TimeValue(getTwoWeeksAgo(t))

\* const date = new Date(dateString); const twoWeeksAgo = getTwoWeeksAgo();
\* return date >= twoWeeksAgo
isWithinTwoWeeks(dateString, t) ==
    ParseDate(dateString) >= TimeValue(getTwoWeeksAgo(t))

(***************************************************************************)
(* Query construction.                                                     *)
(***************************************************************************)
HasDateFilterTruthy(days) == ~IsNullDays(days) /\ days[1] # 0

\* if (days !== null)
HasDateFilter(days) == ~IsNullDays(days)

DateClause(t, days) ==
    IF HasDateFilter(days)
    THEN " created:>=" \o formatDateForGitHub(getDaysAgo(t, days[1]))
    ELSE ""

OrgQueryAnyState(org, days, t) == ("is:pr org:" \o org) \o DateClause(t, days)

OrgQuery(org, days, t) == ("is:pr is:open org:" \o org) \o DateClause(t, days)

UserQuery(username, days, t) ==
    ("is:pr is:open user:" \o username) \o DateClause(t, days)

(***************************************************************************)
(* Raw API items and their normalisation to the PullRequest type.          *)
(* A string that the code splits on '/' is kept as its list of segments:   *)
(* "https://api.github.com/repos/acme/a" is                                *)
(* <<"https:", "", "api.github.com", "repos", "acme", "a">>, and a         *)
(* full name "acme/a" is <<"acme", "a">>.                                  *)
(***************************************************************************)
RepoApiUrl(owner, name) == <<"https:", "", "api.github.com", "repos", owner, name>>

\* repository_url.split('/').pop() || ''
RepoName(url) == IF Len(url) = 0 THEN "" ELSE url[Len(url)]

RepoFullNameLastOnly(url) == SliceLast(url, 1)

\* repository_url.split('/').slice(-2).join('/') || ''
RepoFullName(url) == SliceLast(url, 2)

\* The host's leading 'api.' label and the 'repos' segment dropped, whatever
\* the host.
RepoHtmlUrlAnyHost(url) ==
    IF Len(url) >= 4 /\ url[3] \in {"api.github.com", "api.example.com"}
                     /\ url[4] = "repos"
    THEN SubSeq(url, 1, 2)
             \o <<IF url[3] = "api.github.com" THEN "github.com" ELSE "example.com">>
             \o SubSeq(url, 5, Len(url))
    ELSE url

\* repository_url.replace('api.github.com/repos', 'github.com'): the first
\* occurrence, on segment boundaries.
RepoHtmlUrl(url) ==
    LET hits == {i \in 1..(Len(url) - 1) :
                    url[i] = "api.github.com" /\ url[i + 1] = "repos"}
    IN  IF hits = {} THEN url
        ELSE LET i == CHOOSE k \in hits : \A j \in hits : k <= j
             IN  SubSeq(url, 1, i - 1) \o <<"github.com">> \o SubSeq(url, i + 2, Len(url))

UnknownUser == [login |-> "unknown", avatar_url |-> "", html_url |-> ""]

NormalizeUserPropagating(user) ==
    IF user = NoUser THEN [login |-> "", avatar_url |-> "", html_url |-> ""]
    ELSE user[1]

\* item.user?.login || 'unknown', item.user?.avatar_url || '', ...
\* A field of the raw user that is null or undefined is kept as '': the
\* operator || treats the three alike.
NormalizeUser(user) ==
    IF user = NoUser THEN UnknownUser
    ELSE [login      |-> IF user[1].login = "" THEN "unknown" ELSE user[1].login,
          avatar_url |-> user[1].avatar_url,
          html_url   |-> user[1].html_url]

\* The item => ({...}) callback of items.map.
ToPullRequest(item) ==
    [id         |-> item.id,
     created_at |-> item.created_at,
     user       |-> NormalizeUser(item.user),
     repository |-> [name      |-> RepoName(item.repository_url),
                     full_name |-> RepoFullName(item.repository_url),
                     html_url  |-> RepoHtmlUrl(item.repository_url)],
     draft      |-> item.draft,
     state      |-> item.state]

\* repos.map((repo) => repo.full_name)
RepoFullNames(repos) == [i \in 1..Len(repos) |-> repos[i].full_name]

\* items.map((item) => ({...}))
ToPullRequests(items) == [i \in 1..Len(items) |-> ToPullRequest(items[i])]

\* The value a fetcher resolves with, from the items paginate collected.
Transform(f, items) ==
    IF f = "repos" THEN RepoFullNames(items) ELSE ToPullRequests(items)

(***************************************************************************)
(* What the remote API can hold.  An organization PR list is newest first  *)
(* (sort: 'created', order: 'desc'): item i of n has id and creation time  *)
(* n - i + 1.  Long lists span MaxFullPages full pages of PerPage items,   *)
(* with or without one more item.                                          *)
(***************************************************************************)
SomeUser(id) == <<[login |-> "dev" \o ToString(id), avatar_url |-> "avatar", html_url |-> "profile"]>>

RawItem(id, owner, name) ==
    [id             |-> id,
     created_at     |-> id,
     user           |-> IF id % 2 = 0 THEN NoUser ELSE SomeUser(id),
     repository_url |-> RepoApiUrl(owner, name),
     draft          |-> (id % 3 = 0),
     state          |-> "open"]

RepoRecord(owner, name) == [full_name |-> <<owner, name>>]

Owner == "acme"

\* Sequences of length n over S.
Tuples(S, n) == [1..n -> S]

ShortTeamLists ==
    UNION { { [i \in 1..n |-> RepoRecord(Owner, t[i])] :
                t \in {u \in Tuples(RepoNames, n) :
                          \A i, j \in 1..n : i # j => u[i] # u[j]} } :
            n \in 0..MaxTeamRepos }

ShortPRLists ==
    UNION { { [i \in 1..n |-> RawItem(n - i + 1, Owner, t[i])] : t \in Tuples(RepoNames, n) } :
            n \in 0..MaxPRs }

LongLens == {MaxFullPages * PerPage + d : d \in {0, 1}}

LongTeamList(n) == [i \in 1..n |-> RepoRecord(Owner, IF i = 1 THEN "a" ELSE "r" \o ToString(i))]

LongPRList(n) ==
    [i \in 1..n |-> RawItem(n - i + 1, Owner,
                            IF i % 3 = 0 THEN "a" ELSE IF i % 3 = 1 THEN "b" ELSE "c")]

TeamLists == ShortTeamLists \cup {LongTeamList(n) : n \in LongLens}

PRLists == ShortPRLists \cup {LongPRList(n) : n \in LongLens}

\* Page p (1-based) of a list, PerPage items a page.
PageOf(list, p) ==
    SubSeq(list, (p - 1) * PerPage + 1, Min(p * PerPage, Len(list)))

\* Whether the response for page p carries a rel="next" link.  While items
\* remain it does; after a page that exhausts the list the API may or may
\* not announce one more (then empty) page, unless the page was short.
NextLinks(list, p) ==
    IF p * PerPage < Len(list) THEN {TRUE}
    ELSE IF Len(PageOf(list, p)) = PerPage THEN {TRUE, FALSE}
    ELSE {FALSE}

(***************************************************************************)
(* Promises.                                                               *)
(***************************************************************************)
IdleFetch == [status |-> "idle", page |-> 0, items |-> <<>>, value |-> <<>>, error |-> NoError]

Pending  == [status |-> "pending",  value |-> <<>>, error |-> NoError]
Returned(v) == [status |-> "returned", value |-> v, error |-> NoError]
Thrown(e)   == [status |-> "thrown",   value |-> <<>>, error |-> e]

Settled(p) == p.status \in {"fulfilled", "rejected"}

(***************************************************************************)
(* getTeamRepositories / searchOrgPullRequests: the fetchers.              *)
(***************************************************************************)
FirstPageOnly(f) == FALSE

\* Both fetchers hand their request to octokit.paginate, which follows the
\* rel="next" links of the responses and concatenates the pages.
FollowsPagination(f) == TRUE

FetchCatchWrapped(error) == [error EXCEPT !.kind = "Error: " \o error.kind]

\* catch (error) { console.error(...); throw error }
FetchCatch(error) == error

(***************************************************************************)
(* searchTeamPullRequests.                                                 *)
(***************************************************************************)
StartedOneByOne == {"repos"}

\* The fetchers that the Promise.all([...]) array literal calls, each up to
\* its first await, before anything is awaited.
StartedByCall == {"repos", "prs"}

FilterTeamPRsNoMembership(teamRepos, allOrgPRs) == allOrgPRs

FilterTeamPRsReversed(teamRepos, allOrgPRs) ==
    LET teamRepoSet == Range(teamRepos)
        kept == SelectSeq(allOrgPRs, LAMBDA pr : pr.repository.full_name \in teamRepoSet)
    IN  [i \in 1..Len(kept) |-> kept[Len(kept) - i + 1]]

\* const teamRepoSet = new Set(teamRepos);
\* allOrgPRs.filter((pr) => teamRepoSet.has(pr.repository.full_name))
FilterTeamPRs(teamRepos, allOrgPRs) ==
    LET teamRepoSet == Range(teamRepos)
    IN  SelectSeq(allOrgPRs, LAMBDA pr : pr.repository.full_name \in teamRepoSet)

TeamResultUnfilteredWhenEmpty(teamRepos, allOrgPRs) ==
    IF Len(teamRepos) = 0 THEN allOrgPRs
    ELSE SelectSeq(allOrgPRs, LAMBDA pr : pr.repository.full_name \in Range(teamRepos))

\* The statements after the await.
TeamResult(teamRepos, allOrgPRs) ==
    IF Len(teamRepos) = 0 THEN <<>> ELSE FilterTeamPRs(teamRepos, allOrgPRs)

TeamCatchSwallow(error) == Returned(<<>>)

\* catch (error) { console.error(...); throw error }
TeamCatch(error) == Thrown(error)

\* Promise.allSettled in place of Promise.all: waits for every fetch and
\* reports the first rejection in array order.
AwaitAllSettledInArrayOrder(o, f, fs) ==
    IF o.status # "pending" THEN o
    ELSE IF \E g \in Fetches : ~Settled(fs[g]) THEN o
    ELSE IF fs["repos"].status = "rejected" THEN Thrown(fs["repos"].error)
    ELSE IF fs["prs"].status = "rejected" THEN Thrown(fs["prs"].error)
    ELSE Returned(IF Len(fs["repos"].value) = 0 THEN <<>>
                  ELSE SelectSeq(fs["prs"].value,
                                 LAMBDA pr : pr.repository.full_name \in Range(fs["repos"].value)))

\* The team repositories awaited first: an empty team returns at once.
AwaitReposFirst(o, f, fs) ==
    IF o.status # "pending" THEN o
    ELSE IF fs["repos"].status = "fulfilled" /\ Len(fs["repos"].value) = 0 THEN Returned(<<>>)
    ELSE IF fs[f].status = "rejected" THEN Thrown(fs[f].error)
    ELSE IF \A g \in Fetches : fs[g].status = "fulfilled"
         THEN Returned(SelectSeq(fs["prs"].value,
                                 LAMBDA pr : pr.repository.full_name \in Range(fs["repos"].value)))
    ELSE o

\* await Promise.all([...]) and what follows it, run when fetch f has just
\* settled and the fetches are fs: Promise.all rejects with the first
\* rejection and fulfils once every element has fulfilled; a promise that
\* has settled stays as it is.
AwaitAll(o, f, fs) ==
    IF o.status # "pending" THEN o
    ELSE IF fs[f].status = "rejected" THEN TeamCatch(fs[f].error)
    ELSE IF \A g \in Fetches : fs[g].status = "fulfilled"
         THEN Returned(TeamResult(fs["repos"].value, fs["prs"].value))
    ELSE o

(***************************************************************************)
(* The state machine of one call of searchTeamPullRequests.                *)
(***************************************************************************)
Instants == {480996}          \* 2024-11-14T12:00Z

DaysInputs == {DaysNull, DaysOf(14)}

NoHist == [pages  |-> [f \in Fetches |-> <<>>],     \* lengths of the pages received
           order  |-> <<>>,                          \* fetches in order of settlement
           raised |-> [f \in Fetches |-> NoError]]   \* the error the failed request raised

Init ==
    /\ server \in [repos : TeamLists, prs : PRLists]
    /\ fetch = [f \in Fetches |-> IdleFetch]
    /\ out = [status |-> "idle", value |-> <<>>, error |-> NoError]
    /\ call = <<>>
    /\ query = ""
    /\ now \in Instants
    /\ hist = NoHist
    /\ zone = UTCZone
    /\ cache = NoCache
    /\ view = NoView
    /\ last = NoStep
    /\ localStorage = NoItem
    /\ app = NoApp

TeamSearchQueryPerTeam(org, teamName, days, t) ==
    (OrgQuery(org, days, t) \o " team:") \o teamName

\* The query of the search that searchTeamPullRequests starts: it calls
\* searchOrgPullRequests(org, days), the team name is not passed on.
TeamSearchQuery(org, teamName, days, t) == OrgQuery(org, days, t)

\* searchTeamPullRequests(org, teamName, days) up to its await: both
\* fetchers run up to their first await, which issues their first request.
Call(org, teamName, days) ==
    /\ call = <<>>
    /\ call' = <<[org |-> org, teamName |-> teamName, days |-> days]>>
    /\ query' = TeamSearchQuery(org, teamName, days, now)
    /\ fetch' = [f \in Fetches |->
                    IF f \in StartedByCall
                    THEN [IdleFetch EXCEPT !.status = "pending", !.page = 1]
                    ELSE IdleFetch]
    /\ out' = Pending
    /\ UNCHANGED <<server, now, hist, zone, cache, view, last, localStorage, app>>

IsOpenItem(item) == item.state = "open"

\* The search query q holds the qualifier is:open.
IsOpenQuery(q) == \E i \in 1..(Len(q) - 6) : SubSeq(q, i, i + 6) = "is:open"

\* What the search endpoint finds for q among the pull requests it holds:
\* with is:open in q only the open ones, in their order.
SearchMatches(q, list) == IF IsOpenQuery(q) THEN SelectSeq(list, IsOpenItem) ELSE list

\* The list the API serves to fetch f: the repositories of the team, or the
\* matches of the search query.
Served(f) == IF f = "prs" THEN SearchMatches(query, server.prs) ELSE server[f]

\* The response to the outstanding request of fetch f arrives with a page.
PageOk(f) ==
    /\ fetch[f].status = "pending"
    /\ LET p     == fetch[f].page
           page  == PageOf(Served(f), p)
           items == fetch[f].items \o page
       IN  \E next \in NextLinks(Served(f), p) :
             /\ hist' = [hist EXCEPT !.pages[f] = Append(@, Len(page)),
                                     !.order = IF next /\ FollowsPagination(f)
                                               THEN @ ELSE Append(@, f)]
             /\ IF next /\ FollowsPagination(f)
                THEN /\ fetch' = [fetch EXCEPT ![f].page = p + 1, ![f].items = items]
                     /\ out' = out
                ELSE LET fs == [fetch EXCEPT ![f].status = "fulfilled",
                                             ![f].items = items,
                                             ![f].value = Transform(f, items)]
                     IN  /\ fetch' = fs
                         /\ out' = AwaitAll(out, f, fs)
    /\ UNCHANGED <<server, call, query, now, zone, cache, view, last, localStorage, app>>

\* The outstanding request of fetch f fails with an error.
PageFail(f, kind) ==
    /\ fetch[f].status = "pending"
    /\ LET fs == [fetch EXCEPT ![f].status = "rejected",
                               ![f].error = FetchCatch(ApiError(f, fetch[f].page, kind))]
       IN  /\ fetch' = fs
           /\ out' = AwaitAll(out, f, fs)
    /\ hist' = [hist EXCEPT !.order = Append(@, f),
                            !.raised[f] = ApiError(f, fetch[f].page, kind)]
    /\ UNCHANGED <<server, call, query, now, zone, cache, view, last, localStorage, app>>

Next ==
    \/ \E org \in {Owner}, teamName \in Teams, days \in DaysInputs :
           Call(org, teamName, days)
    \/ \E f \in Fetches : PageOk(f)
    \/ \E f \in Fetches, kind \in ErrorKinds : PageFail(f, kind)

Spec == Init /\ [][Next]_vars

(***************************************************************************)
(* SpecSearch: the same call against an organization whose pull requests   *)
(* are open or closed, for one of two teams.                               *)
(***************************************************************************)
RawItemIn(id, owner, name, state) == [RawItem(id, owner, name) EXCEPT !.state = state]

States == {"open", "closed"}

\* The pull requests of an organization, newest first, whatever their state.
MixedPRLists ==
    UNION { { [i \in 1..n |-> RawItemIn(n - i + 1, Owner, t[i][1], t[i][2])] :
                t \in Tuples(RepoNames \X States, n) } :
            n \in 0..MaxPRs }

SearchTeams == {"core", "web"}

InitSearch ==
    /\ server \in [repos : ShortTeamLists, prs : MixedPRLists]
    /\ fetch = [f \in Fetches |-> IdleFetch]
    /\ out = [status |-> "idle", value |-> <<>>, error |-> NoError]
    /\ call = <<>>
    /\ query = ""
    /\ now \in Instants
    /\ hist = NoHist
    /\ zone = UTCZone
    /\ cache = NoCache
    /\ view = NoView
    /\ last = NoStep
    /\ localStorage = NoItem
    /\ app = NoApp

NextSearch ==
    \/ \E org \in {Owner}, teamName \in SearchTeams, days \in DaysInputs :
           Call(org, teamName, days)
    \/ \E f \in Fetches : PageOk(f)
    \/ \E f \in Fetches, kind \in ErrorKinds : PageFail(f, kind)

SpecSearch == InitSearch /\ [][NextSearch]_vars

(***************************************************************************)
(* Properties of searchTeamPullRequests.                                   *)
(***************************************************************************)
\* The first position of x in s (0 when absent).
FirstPos(s, x) ==
    LET hits == {i \in 1..Len(s) : s[i] = x}
    IN  IF hits = {} THEN 0 ELSE CHOOSE i \in hits : \A j \in hits : i <= j

\* a is a subsequence of b, for a list b without repetitions (the ids of the
\* PRs of one search result are pairwise different): the elements of a
\* occur in b at strictly increasing positions.
IsSubseq(a, b) ==
    /\ \A i \in 1..Len(a) : FirstPos(b, a[i]) > 0
    /\ \A i \in 1..(Len(a) - 1) : FirstPos(b, a[i]) < FirstPos(b, a[i + 1])

TeamRepoSet == Range(fetch["repos"].value)

InTeam(pr) == pr.repository.full_name \in TeamRepoSet

\* C1: the list searchTeamPullRequests returns holds exactly the
\* organization PRs whose repository.full_name is in the team repository
\* set: every returned PR is an organization PR of a team repository, and
\* every organization PR of a team repository is returned, as often as the
\* organization list holds it.
C1_ResultIsTeamSubset ==
    out.status = "returned" =>
        LET orgPRs == fetch["prs"].value
            kept   == {j \in 1..Len(orgPRs) : InTeam(orgPRs[j])}
        IN  /\ \A i \in 1..Len(out.value) :
                   /\ out.value[i] \in Range(orgPRs)
                   /\ InTeam(out.value[i])
            /\ \A j \in kept : orgPRs[j] \in Range(out.value)
            /\ Len(out.value) = Cardinality(kept)

\* A call returned a list that keeps some organization PRs and drops others.
C1_Witness ==
    /\ out.status = "returned"
    /\ Len(out.value) > 0
    /\ \E j \in 1..Len(fetch["prs"].value) : ~InTeam(fetch["prs"].value[j])

\* C2: the returned list is a subsequence of the list searchOrgPullRequests
\* returned, so retained PRs keep their relative order.
C2_ResultIsSubsequence ==
    out.status = "returned" => IsSubseq(out.value, fetch["prs"].value)

\* A call returned two or more PRs after dropping one that lay between them.
C2_Witness ==
    /\ out.status = "returned"
    /\ Len(out.value) >= 2
    /\ \E j \in 2..(Len(fetch["prs"].value) - 1) :
           /\ ~InTeam(fetch["prs"].value[j])
           /\ InTeam(fetch["prs"].value[j - 1])
           /\ InTeam(fetch["prs"].value[j + 1])

\* C3: when the team has no repository and the organization PRs were
\* fetched, the call returns the empty list without error, whatever the
\* organization PR list holds.
C3_EmptyTeamGivesEmptyList ==
    (/\ fetch["repos"].status = "fulfilled"
     /\ fetch["repos"].value = <<>>
     /\ fetch["prs"].status = "fulfilled")
        => out = Returned(<<>>)

\* The team has no repository while the organization has open PRs.
C3_Witness ==
    /\ fetch["repos"].status = "fulfilled"
    /\ fetch["repos"].value = <<>>
    /\ fetch["prs"].status = "fulfilled"
    /\ Len(fetch["prs"].value) > 0
    /\ out.status = "returned"

\* C4: when exactly one of the two fetches has failed, the call has
\* rejected with the error of that fetch and returned no list, whether the
\* other fetch has succeeded or is still under way.
C4_SingleFailureRejects ==
    \A f \in Fetches :
        (fetch[f].status = "rejected" /\ fetch[Other(f)].status # "rejected")
            => /\ out.status = "thrown"
               /\ out.error = fetch[f].error
               /\ out.error.src = f
               /\ out.value = <<>>

\* The organization PR fetch failed after the team repositories were fetched.
C4_Witness ==
    /\ fetch["prs"].status = "rejected"
    /\ fetch["repos"].status = "fulfilled"
    /\ fetch["repos"].value # <<>>
    /\ out.status = "thrown"

OutSettled == out.status \in {"returned", "thrown"}

Responded(f) == Settled(fetch[f]) \/ hist.pages[f] # <<>>

\* C5 (as stated): both fetches are started before either has completed,
\* and the call produces its outcome, a list or an error, only after both
\* fetches have settled.
C5_OutcomeOnlyAfterBothSettled ==
    /\ (\E f \in Fetches : Responded(f)) => \A g \in Fetches : fetch[g].status # "idle"
    /\ OutSettled => \A g \in Fetches : Settled(fetch[g])

\* C5 (amended): both fetches are started before either has received a
\* response; the call returns a list only after both fetches have
\* fulfilled, and it rejects as soon as one fetch has rejected, whether or
\* not the other has settled.
C5_StartedTogetherJoinedOnSuccess ==
    /\ (\E f \in Fetches : Responded(f)) => \A g \in Fetches : fetch[g].status # "idle"
    /\ out.status = "returned" => \A g \in Fetches : fetch[g].status = "fulfilled"
    /\ (\E f \in Fetches : fetch[f].status = "rejected") => out.status = "thrown"
    /\ out.status = "thrown" => \E f \in Fetches : fetch[f].status = "rejected"

\* One fetch has failed and the call has rejected while the other fetch,
\* started with it, still waits for its first response.
C5_Witness ==
    \E f \in Fetches :
        /\ fetch[f].status = "rejected"
        /\ fetch[Other(f)].status = "pending"
        /\ hist.pages[Other(f)] = <<>>
        /\ out.status = "thrown"

\* C6: when both fetches have failed, the call has rejected with the error
\* of the fetch that failed first, whichever order the two failures came
\* in, and it returned no list.
C6_FirstFailureWins ==
    (\A f \in Fetches : fetch[f].status = "rejected")
        => /\ out.status = "thrown"
           /\ out.error = hist.raised[hist.order[1]]
           /\ out.error.src = hist.order[1]
           /\ out.value = <<>>

\* Both fetches failed, the organization PR fetch first.
C6_Witness ==
    /\ \A f \in Fetches : fetch[f].status = "rejected"
    /\ hist.order = <<"prs", "repos">>
    /\ out.status = "thrown"

\* C7 (as stated): once the team repositories are fetched and there are
\* none, the call returns the empty list however the organization PR fetch
\* settles.
C7_EmptyTeamIgnoresPRFetch ==
    (/\ fetch["repos"].status = "fulfilled"
     /\ fetch["repos"].value = <<>>
     /\ Settled(fetch["prs"]))
        => out = Returned(<<>>)

\* C7 (amended): for a team without repositories the call returns the
\* empty list only once the organization PR fetch has fulfilled, whatever
\* that list holds; while the organization PR fetch is pending the call is
\* pending, and when it fails the call rejects with its error.
C7_EmptyTeamStillJoins ==
    (fetch["repos"].status = "fulfilled" /\ fetch["repos"].value = <<>>)
        => /\ fetch["prs"].status = "fulfilled" => out = Returned(<<>>)
           /\ fetch["prs"].status = "pending" => out.status = "pending"
           /\ fetch["prs"].status = "rejected" => out = Thrown(hist.raised["prs"])

\* The team has no repository and the organization PR fetch has failed: the
\* call has rejected.
C7_Witness ==
    /\ fetch["repos"].status = "fulfilled"
    /\ fetch["repos"].value = <<>>
    /\ fetch["prs"].status = "rejected"
    /\ out.status = "thrown"

C9_PageFailureRejectsFetch ==
    \A f \in Fetches :
        /\ hist.raised[f] # NoError =>
               /\ fetch[f].status = "rejected"
               /\ fetch[f].error = hist.raised[f]
               /\ fetch[f].value = <<>>
        /\ fetch[f].status = "rejected" => hist.raised[f] # NoError

\* A fetcher failed on a later page, after a full first page had arrived.
C9_Witness ==
    \E f \in Fetches :
        /\ fetch[f].status = "rejected"
        /\ fetch[f].error.page >= 2
        /\ Len(fetch[f].items) >= PerPage

(***************************************************************************)
(* Query construction on its own: searchOrgPullRequests(org, days) and     *)
(* searchUserPullRequests(username, days) up to their request, at          *)
(* different readings of the clock.                                        *)
(***************************************************************************)
\* 2023-10-09T10, 2024-01-05T23, 2024-03-01T00, 2024-03-07T05,
\* 2024-11-14T12, 2024-12-31T23, 2025-01-01T00 (UTC)
QueryInstants == {471346, 473471, 474792, 474941, 480996, 482135, 482136}

QueryDays == {DaysNull} \cup {DaysOf(n) : n \in {0, 1, 7, 14, 30}}

Usernames == {"shaned-ping", "torvalds"}

InitQuery ==
    /\ server = [repos |-> <<>>, prs |-> <<>>]
    /\ fetch = [f \in Fetches |-> IdleFetch]
    /\ out = [status |-> "idle", value |-> <<>>, error |-> NoError]
    /\ call = <<>>
    /\ query = ""
    /\ now \in QueryInstants
    /\ hist = NoHist
    /\ zone = UTCZone
    /\ cache = NoCache
    /\ view = NoView
    /\ last = NoStep
    /\ localStorage = NoItem
    /\ app = NoApp

BuildOrgQuery(org, days) ==
    /\ call = <<>>
    /\ call' = <<[fn |-> "searchOrgPullRequests", who |-> org, days |-> days]>>
    /\ query' = OrgQuery(org, days, now)
    /\ UNCHANGED <<server, fetch, out, now, hist, zone, cache, view, last, localStorage, app>>

BuildUserQuery(username, days) ==
    /\ call = <<>>
    /\ call' = <<[fn |-> "searchUserPullRequests", who |-> username, days |-> days]>>
    /\ query' = UserQuery(username, days, now)
    /\ UNCHANGED <<server, fetch, out, now, hist, zone, cache, view, last, localStorage, app>>

NextQuery ==
    \/ \E org \in Orgs, days \in QueryDays : BuildOrgQuery(org, days)
    \/ \E username \in Usernames, days \in QueryDays : BuildUserQuery(username, days)

SpecQuery == InitQuery /\ [][NextQuery]_vars

\* The filter expression without a creation-date clause.
BaseQuery(c) ==
    "is:pr is:open "
        \o (IF c.fn = "searchOrgPullRequests" THEN "org:" ELSE "user:")
        \o c.who

\* C10: the filter expression holds a creation-date clause exactly when
\* days is not null: for null it is 'is:pr is:open org:<org>' (or
\* 'user:<username>'), and for every number of days, 0 included, it is that
\* base followed by ' created:>=' and the cutoff date.
C10_DateClauseIffDaysNotNull ==
    call # <<>> =>
        LET c == call[1]
        IN  /\ (query = BaseQuery(c)) <=> (c.days = DaysNull)
            /\ c.days # DaysNull =>
                   query = BaseQuery(c) \o " created:>="
                               \o formatDateForGitHub(getDaysAgo(now, c.days[1]))

\* The organization query for the last 7 days, built on 2024-11-14.
C10_Witness ==
    /\ call # <<>>
    /\ call[1].days = DaysOf(7)
    /\ query = "is:pr is:open org:pinggolf created:>=2024-11-07"

(***************************************************************************)
(* The date utilities on their own (utils/dateUtils): the cutoff of a      *)
(* window, its text form and the membership test, at different readings of *)
(* the clock on hosts of different time zones.                             *)
(***************************************************************************)
\* The instants of the queries and 2024-03-24T09, 2024-04-14T00,
\* 2024-11-10T12 (UTC): windows that reach back over a change of the clocks.
DateInstants == QueryInstants \cup {475353, 475848, 480900}

WindowDays == {1, 7, 14, 30}

\* Timestamps under test, in seconds from the cutoff.
TimestampOffsets == {-1728000, -3600, -1, 0, 1, 3600, 1209600}

InitDate ==
    /\ server = [repos |-> <<>>, prs |-> <<>>]
    /\ fetch = [f \in Fetches |-> IdleFetch]
    /\ out = [status |-> "idle", value |-> <<>>, error |-> NoError]
    /\ call = <<>>
    /\ query = ""
    /\ now \in DateInstants
    /\ hist = NoHist
    /\ zone \in Zones
    /\ cache = NoCache
    /\ view = NoView
    /\ last = NoStep
    /\ localStorage = NoItem
    /\ app = NoApp

GetDaysAgo(days) ==
    /\ call = <<>>
    /\ call' = <<[fn |-> "getDaysAgo", days |-> days]>>
    /\ out' = Returned(getDaysAgo(now, days))
    /\ UNCHANGED <<server, fetch, query, now, hist, zone, cache, view, last, localStorage, app>>

GetTwoWeeksAgo ==
    /\ call = <<>>
    /\ call' = <<[fn |-> "getTwoWeeksAgo", days |-> 14]>>
    /\ out' = Returned(getTwoWeeksAgo(now))
    /\ UNCHANGED <<server, fetch, query, now, hist, zone, cache, view, last, localStorage, app>>

\* formatDateForGitHub applied to the cutoff just computed.
FormatDateForGitHub ==
    /\ call # <<>>
    /\ call[1].fn \in {"getDaysAgo", "getTwoWeeksAgo"}
    /\ query = ""
    /\ query' = formatDateForGitHub(out.value)
    /\ UNCHANGED <<server, fetch, out, call, now, hist, zone, cache, view, last, localStorage, app>>

\* isWithinTwoWeeks(dateString) for the timestamp `offset` seconds after the
\* cutoff.
IsWithinTwoWeeks(offset) ==
    /\ call = <<>>
    /\ LET dateString == ISOFields(TimeValue(getTwoWeeksAgo(now)) + offset)
       IN  /\ call' = <<[fn |-> "isWithinTwoWeeks", days |-> 14,
                         offset |-> offset, dateString |-> dateString]>>
           /\ out' = Returned(isWithinTwoWeeks(dateString, now))
    /\ UNCHANGED <<server, fetch, query, now, hist, zone, cache, view, last, localStorage, app>>

NextDate ==
    \/ \E days \in WindowDays : GetDaysAgo(days)
    \/ GetTwoWeeksAgo
    \/ FormatDateForGitHub
    \/ \E offset \in TimestampOffsets : IsWithinTwoWeeks(offset)

SpecDate == InitDate /\ [][NextDate]_vars

CutoffComputed ==
    /\ call # <<>>
    /\ call[1].fn \in {"getDaysAgo", "getTwoWeeksAgo"}

\* 'YYYY-MM-DD' of the UTC calendar day of the instant t.
CalendarText(t) ==
    LET ymd == CivilFromDays(t \div 24)
    IN  Pad4(ymd[1]) \o "-" \o Pad2(ymd[2]) \o "-" \o Pad2(ymd[3])

\* C11: for every window of d > 0 days the cutoff is d days before the
\* current instant at the same time of day, whether the days are counted as
\* elapsed days of 24 hours or as calendar days of the host's clock
\* (getTwoWeeksAgo being the case d = 14), and formatDateForGitHub renders
\* the cutoff as the ten characters YYYY-MM-DD, zero-padded, with no time
\* part.
C11_CutoffExactlyDDaysEarlier ==
    CutoffComputed =>
        LET d == call[1].days
        IN  /\ \/ out.value = now - d * 24
               \/ LocalTime(zone, out.value) = LocalTime(zone, now) - d * 24
            /\ query # "" => /\ query = CalendarText(out.value)
                             /\ Len(query) = 10

\* C12: isWithinTwoWeeks is true for the timestamp at the cutoff and for
\* every later one, and false for the timestamp one second before the
\* cutoff and for every earlier one.
C12_WindowInclusiveAtCutoff ==
    (call # <<>> /\ call[1].fn = "isWithinTwoWeeks") =>
        (out.value <=> call[1].offset >= 0)

\* The timestamp at the cutoff itself, 2024-10-31T12:00:00Z for the clock
\* at 2024-11-14T12:00Z, is within the window.
C12_Witness ==
    /\ call # <<>>
    /\ call[1].fn = "isWithinTwoWeeks"
    /\ now = 480996
    /\ call[1].dateString = [y |-> 2024, m |-> 10, d |-> 31, h |-> 12, mi |-> 0, s |-> 0]
    /\ out.value = TRUE

(***************************************************************************)
(* Normalisation on its own: the item => ({...}) callback applied to one   *)
(* raw item of a response.                                                 *)
(***************************************************************************)
RawUsers ==
    {NoUser,
     <<[login |-> "testuser",
        avatar_url |-> "https://avatars.githubusercontent.com/u/123",
        html_url |-> "https://github.com/testuser"]>>,
     <<[login |-> "", avatar_url |-> "", html_url |-> ""]>>,
     <<[login |-> "ghost", avatar_url |-> "", html_url |-> "https://github.com/ghost"]>>,
     <<[login |-> "", avatar_url |-> "https://avatars.githubusercontent.com/u/0",
        html_url |-> ""]>>}

\* https://api.example.com/repos/acme/widgets
ExampleApiUrl == <<"https:", "", "api.example.com", "repos", "acme", "widgets">>

\* https://ghe.example.com/api/v3/repos/acme/widgets
EnterpriseApiUrl == <<"https:", "", "ghe.example.com", "api", "v3", "repos", "acme", "widgets">>

RawUrls ==
    {RepoApiUrl("acme", "widgets"), RepoApiUrl("pinggolf", "repo1"),
     ExampleApiUrl, EnterpriseApiUrl}

RawItems ==
    [id : {1, 2}, created_at : {1}, user : RawUsers, repository_url : RawUrls,
     draft : BOOLEAN, state : {"open", "closed"}]

InitNormalize ==
    /\ server = [repos |-> <<>>, prs |-> <<>>]
    /\ fetch = [f \in Fetches |-> IdleFetch]
    /\ out = [status |-> "idle", value |-> <<>>, error |-> NoError]
    /\ call = <<>>
    /\ query = ""
    /\ now \in Instants
    /\ hist = NoHist
    /\ zone = UTCZone
    /\ cache = NoCache
    /\ view = NoView
    /\ last = NoStep
    /\ localStorage = NoItem
    /\ app = NoApp

Normalize(item) ==
    /\ call = <<>>
    /\ call' = <<[fn |-> "normalize", item |-> item]>>
    /\ out' = Returned(ToPullRequest(item))
    /\ UNCHANGED <<server, fetch, query, now, hist, zone, cache, view, last, localStorage, app>>

NextNormalize == \E item \in RawItems : Normalize(item)

SpecNormalize == InitNormalize /\ [][NextNormalize]_vars

\* x || fallback on strings.
OrElse(x, fallback) == IF x = "" THEN fallback ELSE x

\* C13: a raw item without a user is normalised to login 'unknown',
\* avatar_url '' and html_url ''; a user field that is empty gets its own
\* default of these three; a field that is present is copied unchanged.
C13_MissingAuthorNeverPropagates ==
    call # <<>> =>
        LET user == call[1].item.user
            got  == out.value.user
        IN  /\ user = NoUser =>
                   got = [login |-> "unknown", avatar_url |-> "", html_url |-> ""]
            /\ user # NoUser =>
                   /\ got.login = OrElse(user[1].login, "unknown")
                   /\ got.avatar_url = OrElse(user[1].avatar_url, "")
                   /\ got.html_url = OrElse(user[1].html_url, "")
            /\ got.login # ""

\* An item without a user has been normalised.
C13_Witness ==
    /\ call # <<>>
    /\ call[1].item.user = NoUser
    /\ out.value.user.login = "unknown"

\* C14 as stated: https://api.example.com/repos/acme/widgets is normalised
\* to name 'widgets', full_name 'acme/widgets' and html_url
\* https://example.com/acme/widgets.
C14_ExampleHostRewritten ==
    (call # <<>> /\ call[1].item.repository_url = ExampleApiUrl) =>
        out.value.repository =
            [name      |-> "widgets",
             full_name |-> <<"acme", "widgets">>,
             html_url  |-> <<"https:", "", "example.com", "acme", "widgets">>]

\* C14: the name is the last segment of the repository URL and the full
\* name its last two; the web URL is the API URL with its first
\* 'api.github.com/repos' replaced by 'github.com', so
\* https://api.github.com/repos/acme/widgets gives
\* https://github.com/acme/widgets, and the URL of any other host, such as
\* https://api.example.com/repos/acme/widgets, is left as it is.
C14_GitHubHostRewritten ==
    call # <<>> =>
        LET url  == call[1].item.repository_url
            repo == out.value.repository
        IN  /\ repo.name = url[Len(url)]
            /\ repo.full_name = <<url[Len(url) - 1], url[Len(url)]>>
            /\ url = RepoApiUrl("acme", "widgets") =>
                   repo = [name      |-> "widgets",
                           full_name |-> <<"acme", "widgets">>,
                           html_url  |-> <<"https:", "", "github.com", "acme", "widgets">>]
            /\ url[3] # "api.github.com" => repo.html_url = url

\* The example URL has been normalised: name and full name as stated, the
\* web URL unchanged.
C14_Witness ==
    /\ call # <<>>
    /\ call[1].item.repository_url = ExampleApiUrl
    /\ out.value.repository.full_name = <<"acme", "widgets">>
    /\ out.value.repository.html_url = ExampleApiUrl

(***************************************************************************)
(* The caching hook useTeamPullRequests (hooks/usePullRequests) and its    *)
(* consumer PullRequestList.  The hook hands a key, a fetcher and two      *)
(* options to useQuery; the query cache of the library is the environment  *)
(* of the hook and is modelled by its contract: an entry per key, fetched  *)
(* when an observer mounts on it or switches to it and finds it stale,     *)
(* refetched by the observer's interval timer, retried on failure as the   *)
(* client's defaults say.  Time is counted in minutes; an entry keeps the  *)
(* age of its data, counted up to the staleness window, and the observer   *)
(* the minutes since its interval timer was armed.  The removal of entries *)
(* that no observer has used for the cache time is left out.               *)
(***************************************************************************)
\* const org = 'pinggolf'; const team = 'is-ping-core'; days defaults to 14.
BaseParams == [org |-> "pinggolf", teamName |-> "is-ping-core", days |-> DaysOf(14)]

\* The selections that differ from it in one parameter.
OtherParams ==
    {[BaseParams EXCEPT !.days = DaysNull],
     [BaseParams EXCEPT !.org = "acme"],
     [BaseParams EXCEPT !.teamName = "is-ping-web"]}

QueryKeyWithoutDays(p) == <<"teamPullRequests", p.org, p.teamName>>

\* queryKey: ['teamPullRequests', org, teamName, days]
QueryKey(p) == <<"teamPullRequests", p.org, p.teamName, p.days>>

\* 1000 * 60 * 5 and 1000 * 60 * 2 milliseconds, in minutes.
IntervalMinutes == 5
StaleMinutes == 2

TeamQueryOptionsAlwaysStale == [refetchInterval |-> IntervalMinutes, staleTime |-> 0]

TeamQueryOptionsNoInterval == [refetchInterval |-> 0, staleTime |-> StaleMinutes]

\* refetchInterval: 1000 * 60 * 5, staleTime: 1000 * 60 * 2
TeamQueryOptions == [refetchInterval |-> IntervalMinutes, staleTime |-> StaleMinutes]

QueryClientNoRetry ==
    [staleTime |-> 5, refetchOnWindowFocus |-> FALSE, retry |-> 0,
     refetchOnReconnect |-> TRUE, refetchIntervalInBackground |-> FALSE]

\* new QueryClient({defaultOptions: {queries: {staleTime: 1000 * 60 * 5,
\* refetchOnWindowFocus: false}}}): retry is left at the library's default
\* of three retries, refetchOnReconnect at true and
\* refetchIntervalInBackground at false.
QueryClientDefaults ==
    [staleTime |-> 5, refetchOnWindowFocus |-> FALSE, retry |-> 3,
     refetchOnReconnect |-> TRUE, refetchIntervalInBackground |-> FALSE]

\* The options of the observer: those of the hook over the client's.
Options ==
    [staleTime                   |-> TeamQueryOptions.staleTime,
     refetchInterval             |-> TeamQueryOptions.refetchInterval,
     refetchOnWindowFocus        |-> QueryClientDefaults.refetchOnWindowFocus,
     refetchOnReconnect          |-> QueryClientDefaults.refetchOnReconnect,
     refetchIntervalInBackground |-> QueryClientDefaults.refetchIntervalInBackground,
     retry                       |-> QueryClientDefaults.retry]

\* The lists searchTeamPullRequests may resolve with (PR ids).
ResultLists == {<<>>, <<101>>}

FetchError == <<"NetworkError">>

\* An entry as the cache builds it for a key it has not seen.
NewQuery ==
    [status |-> "loading", fetchStatus |-> "idle", data |-> <<>>, age |-> 0,
     error |-> <<>>, failureCount |-> 0, args |-> <<>>, from |-> <<>>]

EntryOf(c, key) == IF key \in DOMAIN c THEN c[key] ELSE NewQuery

\* c with the entry of key set to e.
WithEntry(c, key, e) ==
    [k \in DOMAIN c \cup {key} |-> IF k = key THEN e ELSE c[k]]

IsStale(e) == e.data = <<>> \/ e.age >= Options.staleTime

StartFetchBlocking(e, p) ==
    IF e.fetchStatus = "fetching" THEN e
    ELSE [e EXCEPT !.fetchStatus = "fetching", !.failureCount = 0, !.args = <<p>>,
                   !.status = "loading", !.error = <<>>, !.data = <<>>, !.from = <<>>]

\* query.fetch(): a fetch in flight is joined; otherwise queryFn is called
\* with the parameters p of the observer, and an entry without data shows
\* as loading.
StartFetch(e, p) ==
    IF e.fetchStatus = "fetching" THEN e
    ELSE IF e.data = <<>>
         THEN [e EXCEPT !.fetchStatus = "fetching", !.failureCount = 0,
                        !.args = <<p>>, !.status = "loading", !.error = <<>>]
         ELSE [e EXCEPT !.fetchStatus = "fetching", !.failureCount = 0,
                        !.args = <<p>>]

\* The arguments of the queryFn call that StartFetch makes, if it makes one.
CalledBy(e, p) == IF e.fetchStatus = "fetching" THEN <<>> ELSE <<p>>

\* The entry after queryFn has resolved with r.
FetchSuccess(e, r) ==
    [e EXCEPT !.status = "success", !.fetchStatus = "idle", !.data = <<r>>,
              !.age = 0, !.error = <<>>, !.failureCount = 0,
              !.from = e.args, !.args = <<>>]

FetchFailureDropsData(e, err) ==
    [e EXCEPT !.status = "error", !.fetchStatus = "idle", !.error = err,
              !.failureCount = e.failureCount + 1,
              !.data = <<>>, !.from = <<>>, !.args = <<>>]

FetchFailureWrapsError(e, err) ==
    [e EXCEPT !.status = "error", !.fetchStatus = "idle",
              !.error = <<"Error: " \o err[1]>>,
              !.failureCount = e.failureCount + 1, !.args = <<>>]

\* The entry after queryFn has rejected with err for the last time: the
\* error is recorded, the data stays.
FetchFailure(e, err) ==
    [e EXCEPT !.status = "error", !.fetchStatus = "idle", !.error = err,
              !.failureCount = e.failureCount + 1, !.args = <<>>]

(***************************************************************************)
(* The state machine of the cache with one consumer, which renders the     *)
(* hook with the base selection or with one other selection.  In SpecCache *)
(* the window keeps the focus; SpecRefresh follows a view that stays open  *)
(* on one selection while its window is hidden and shown.                  *)
(***************************************************************************)
Step(op, called) == [op |-> op, called |-> called]

CurrentKey == QueryKey(view.params)

Current == EntryOf(cache, CurrentKey)

InitCache ==
    /\ server = [repos |-> <<>>, prs |-> <<>>]
    /\ fetch = [f \in Fetches |-> IdleFetch]
    /\ out = [status |-> "idle", value |-> <<>>, error |-> NoError]
    /\ call = <<>>
    /\ query = ""
    /\ now \in Instants
    /\ hist = NoHist
    /\ zone = UTCZone
    /\ cache = NoCache
    /\ \E p \in OtherParams :
           view = [mounted |-> FALSE, focused |-> TRUE, timer |-> 0,
                   params |-> BaseParams, other |-> p]
    /\ last = NoStep
    /\ localStorage = NoItem
    /\ app = NoApp

\* The component mounts: a new observer subscribes to the entry of its key
\* and fetches it when it has no data or its data is stale; its interval
\* timer is armed.
Mount ==
    /\ ~view.mounted
    /\ LET e == Current
           fetches == IsStale(e)
       IN  /\ cache' = WithEntry(cache, CurrentKey,
                                 IF fetches THEN StartFetch(e, view.params) ELSE e)
           /\ last' = Step("Mount", IF fetches THEN CalledBy(e, view.params) ELSE <<>>)
    /\ view' = [view EXCEPT !.mounted = TRUE, !.timer = 0]
    /\ UNCHANGED <<svcvars, appvars>>

\* The component unmounts: the observer and its timer go, the entry and a
\* fetch in flight stay.
Unmount ==
    /\ view.mounted
    /\ view' = [view EXCEPT !.mounted = FALSE, !.timer = 0]
    /\ last' = Step("Unmount", <<>>)
    /\ UNCHANGED <<svcvars, appvars, cache>>

\* The component renders again with parameters p, the same or the other
\* selection: useQuery hands the options to its observer, which moves to
\* the entry of the new key when the key has changed, fetches it when it is
\* stale, and arms its timer anew.
Render(p) ==
    /\ view.mounted
    /\ LET key     == QueryKey(p)
           changed == key # CurrentKey
           e       == EntryOf(cache, key)
           fetches == changed /\ IsStale(e)
           called  == IF fetches THEN CalledBy(e, p) ELSE <<>>
       IN  /\ cache' = WithEntry(cache, key, IF fetches THEN StartFetch(e, p) ELSE e)
           /\ last' = Step(IF p = view.params THEN "Rerender" ELSE "ChangeParams", called)
           /\ view' = [view EXCEPT
                         !.params = p,
                         !.other = IF p = view.params THEN view.other ELSE view.params,
                         !.timer = IF changed \/ called # <<>> THEN 0 ELSE view.timer]
    /\ UNCHANGED <<svcvars, appvars>>

\* The window gains the focus.
Focus ==
    /\ ~view.focused
    /\ LET e == Current
           fetches == view.mounted /\ Options.refetchOnWindowFocus /\ IsStale(e)
       IN  /\ cache' = IF fetches
                       THEN WithEntry(cache, CurrentKey, StartFetch(e, view.params))
                       ELSE cache
           /\ last' = Step("Focus", IF fetches THEN CalledBy(e, view.params) ELSE <<>>)
           /\ view' = [view EXCEPT !.focused = TRUE,
                                   !.timer = IF fetches /\ CalledBy(e, view.params) # <<>>
                                             THEN 0 ELSE view.timer]
    /\ UNCHANGED <<svcvars, appvars>>

\* The window is hidden.
Blur ==
    /\ view.focused
    /\ view' = [view EXCEPT !.focused = FALSE]
    /\ last' = Step("Blur", <<>>)
    /\ UNCHANGED <<svcvars, appvars, cache>>

\* The network comes back.
Reconnect ==
    /\ view.mounted
    /\ LET e == Current
           fetches == Options.refetchOnReconnect /\ IsStale(e)
           called  == IF fetches THEN CalledBy(e, view.params) ELSE <<>>
       IN  /\ cache' = IF fetches
                       THEN WithEntry(cache, CurrentKey, StartFetch(e, view.params))
                       ELSE cache
           /\ last' = Step("Reconnect", called)
           /\ view' = [view EXCEPT !.timer = IF called # <<>> THEN 0 ELSE view.timer]
    /\ UNCHANGED <<svcvars, appvars>>

TimerDue ==
    /\ view.mounted
    /\ Options.refetchInterval > 0
    /\ view.timer >= Options.refetchInterval

\* A minute passes; a timer that is due runs first.
Tick ==
    /\ ~TimerDue
    /\ cache' = [k \in DOMAIN cache |->
                    IF cache[k].data = <<>> THEN cache[k]
                    ELSE [cache[k] EXCEPT !.age = Min(@ + 1, Options.staleTime)]]
    /\ view' = [view EXCEPT !.timer = IF view.mounted /\ Options.refetchInterval > 0
                                      THEN @ + 1 ELSE @]
    /\ last' = Step("Tick", <<>>)
    /\ UNCHANGED <<svcvars, appvars>>

\* The callback of the observer's setInterval: it fetches, stale or not,
\* when the window has the focus or refetchIntervalInBackground is set.
IntervalFires ==
    /\ TimerDue
    /\ LET e == Current
           fetches == Options.refetchIntervalInBackground \/ view.focused
       IN  /\ cache' = IF fetches
                       THEN WithEntry(cache, CurrentKey, StartFetch(e, view.params))
                       ELSE cache
           /\ last' = Step("IntervalFires",
                           IF fetches THEN CalledBy(e, view.params) ELSE <<>>)
    /\ view' = [view EXCEPT !.timer = 0]
    /\ UNCHANGED <<svcvars, appvars>>

\* The timer of the observer is armed anew when its entry changes.
TimerAfterUpdate(key) ==
    IF view.mounted /\ key = CurrentKey THEN [view EXCEPT !.timer = 0] ELSE view

FetchSucceedsIntoCurrent(key, r) ==
    /\ key \in DOMAIN cache
    /\ cache[key].fetchStatus = "fetching"
    /\ cache' = WithEntry([cache EXCEPT ![key].fetchStatus = "idle", ![key].args = <<>>],
                          CurrentKey,
                          [FetchSuccess(Current, r) EXCEPT !.from = cache[key].args])
    /\ view' = TimerAfterUpdate(key)
    /\ last' = Step("FetchSucceeds", <<>>)
    /\ UNCHANGED <<svcvars, appvars>>

\* searchTeamPullRequests resolves with r for the fetch of an entry.
FetchSucceeds(key, r) ==
    /\ key \in DOMAIN cache
    /\ cache[key].fetchStatus = "fetching"
    /\ cache' = [cache EXCEPT ![key] = FetchSuccess(@, r)]
    /\ view' = TimerAfterUpdate(key)
    /\ last' = Step("FetchSucceeds", <<>>)
    /\ UNCHANGED <<svcvars, appvars>>

\* searchTeamPullRequests rejects for the fetch of an entry: the fetcher is
\* called again while retries remain, then the failure is recorded.
FetcherThrows(key) ==
    /\ key \in DOMAIN cache
    /\ cache[key].fetchStatus = "fetching"
    /\ IF cache[key].failureCount < Options.retry
       THEN /\ cache' = [cache EXCEPT ![key].failureCount = @ + 1]
            /\ last' = Step("FetcherThrows", cache[key].args)
       ELSE /\ cache' = [cache EXCEPT ![key] = FetchFailure(@, FetchError)]
            /\ last' = Step("FetcherThrows", <<>>)
    /\ view' = TimerAfterUpdate(key)
    /\ UNCHANGED <<svcvars, appvars>>

NextCache ==
    \/ Mount
    \/ Unmount
    \/ \E p \in {view.params, view.other} : Render(p)
    \/ Reconnect
    \/ Tick
    \/ IntervalFires
    \/ \E key \in DOMAIN cache, r \in ResultLists : FetchSucceeds(key, r)
    \/ \E key \in DOMAIN cache : FetcherThrows(key)

SpecCache == InitCache /\ [][NextCache]_vars

NextRefresh ==
    \/ Mount
    \/ Focus
    \/ Blur
    \/ Tick
    \/ IntervalFires
    \/ \E key \in DOMAIN cache, r \in ResultLists : FetchSucceeds(key, r)
    \/ \E key \in DOMAIN cache : FetcherThrows(key)

\* A request settles.
Settles ==
    \E key \in DOMAIN cache :
        FetcherThrows(key) \/ \E r \in ResultLists : FetchSucceeds(key, r)

\* The component mounts, time passes, a due timer runs its callback and
\* every request settles.
SpecRefresh ==
    /\ InitCache
    /\ [][NextRefresh]_vars
    /\ WF_vars(Mount)
    /\ WF_vars(Tick)
    /\ WF_vars(IntervalFires)
    /\ WF_vars(Settles)

(***************************************************************************)
(* What the consumer sees.                                                 *)
(***************************************************************************)
HookResultIsFetching ==
    [data      |-> Current.data,
     isLoading |-> Current.fetchStatus = "fetching",
     error     |-> Current.error]

\* const { data: pullRequests, isLoading, error } = useTeamPullRequests(...)
HookResult ==
    [data      |-> Current.data,
     isLoading |-> Current.status = "loading",
     error     |-> Current.error]

\* The four returns of PullRequestList: what is shown, the cards rendered
\* and the error message rendered.
PullRequestList(r) ==
    IF r.isLoading
    THEN [shows |-> "loading", cards |-> <<>>, message |-> <<>>]
    ELSE IF r.error # <<>>
    THEN [shows |-> "error", cards |-> <<>>, message |-> r.error]
    ELSE IF r.data = <<>> \/ Len(r.data[1]) = 0
    THEN [shows |-> "empty", cards |-> <<>>, message |-> <<>>]
    ELSE [shows |-> "list", cards |-> r.data[1], message |-> <<>>]

\* The steps in which the consumer reads its key: the mount of the
\* component, a render with the same parameters and a render with others.
Reads == {"Mount", "Rerender", "ChangeParams"}

\* No fetcher call has been made with the parameters p.
NeverFetched(p) ==
    \A k \in DOMAIN cache : cache[k].from # <<p>> /\ cache[k].args # <<p>>

HoldsData(e) == e.data # <<>>

\* C15: a change of one key parameter (organization, team or window) moves
\* the consumer to another entry: the entry of the previous key is left as
\* it was, data and status included, and when no fetch has been made with
\* the new parameters the fetcher is called with exactly them.
C15_EachKeyOwnEntry ==
    [][Render(view.other) =>
          LET old == QueryKey(view.params)
              new == QueryKey(view.other)
          IN  /\ new # old
              /\ cache'[old] = cache[old]
              /\ NeverFetched(view.other) =>
                     /\ cache'[new].fetchStatus = "fetching"
                     /\ cache'[new].args = <<view.other>>
                     /\ last'.called = <<view.other>>]_vars

\* The consumer has moved from the 14-day window to the unlimited one: the
\* old entry keeps its list, the new one is being fetched with days = null.
C15_Witness ==
    /\ last.op = "ChangeParams"
    /\ view.params = [BaseParams EXCEPT !.days = DaysNull]
    /\ last.called = <<view.params>>
    /\ Current.status = "loading"
    /\ QueryKey(BaseParams) \in DOMAIN cache
    /\ cache[QueryKey(BaseParams)].status = "success"
    /\ cache[QueryKey(BaseParams)].data = << <<101>> >>

\* C16: while the entry of a key holds data less than 2 minutes old, a
\* read of the key (a mount, a render with the same parameters, a return
\* to the key) calls the fetcher no more: after the first successful load
\* a re-render leaves the fetcher at its one call.
C16_FreshReadIssuesNoFetch ==
    (/\ last.op \in Reads
     /\ view.mounted
     /\ HoldsData(Current)
     /\ Current.age < StaleMinutes) => last.called = <<>>

\* A re-render right after the first successful load.
C16_Witness ==
    /\ last.op = "Rerender"
    /\ Current.status = "success"
    /\ Current.fetchStatus = "idle"
    /\ Current.age = 0
    /\ Current.failureCount = 0
    /\ last.called = <<>>

\* C17 as stated: once the data of an entry is older than 2 minutes, the
\* next read of the key, a re-render as much as a mount, has a refetch in
\* flight.
C17_StaleReadRefetches ==
    (/\ last.op \in Reads
     /\ view.mounted
     /\ HoldsData(Current)
     /\ Current.age >= StaleMinutes) => Current.fetchStatus = "fetching"

\* C17: once the data of an entry is older than 2 minutes, the next mount
\* of a consumer on the key, or the next change of a consumer to the key,
\* has a refetch in flight, whereas a render of a mounted consumer with
\* the same parameters starts none; a refetch of an entry that holds data
\* leaves the data in place and the entry out of the loading state, so the
\* consumer sees the previous data throughout; and when the refetch
\* succeeds the entry holds the new result with age 0, fresh again.
C17_StaleMountRefetchesInBackground ==
    [][/\ (Mount \/ Render(view.other)) =>
             ((HoldsData(Current') /\ Current'.age >= StaleMinutes)
                  => Current'.fetchStatus = "fetching")
       /\ Render(view.params) => (last'.called = <<>> /\ cache' = cache)
       /\ \A k \in DOMAIN cache :
             (HoldsData(cache[k]) /\ cache'[k].fetchStatus = "fetching") =>
                 /\ cache'[k].data = cache[k].data
                 /\ cache'[k].status # "loading"
       /\ (view'.mounted /\ HoldsData(Current') /\ Current'.fetchStatus = "fetching") =>
             /\ HookResult'.data = Current'.data
             /\ ~HookResult'.isLoading
       /\ \A k \in DOMAIN cache, r \in ResultLists :
             FetchSucceeds(k, r) =>
                 /\ cache'[k].data = <<r>>
                 /\ cache'[k].age = 0
                 /\ cache'[k].status = "success"
                 /\ cache'[k].fetchStatus = "idle"]_vars

\* A consumer has mounted on an entry whose list is 2 minutes old: the
\* fetcher has been called and the consumer sees the old list, not loading.
C17_Witness ==
    /\ last.op = "Mount"
    /\ last.called = <<view.params>>
    /\ Current.data = << <<101>> >>
    /\ Current.age >= StaleMinutes
    /\ Current.fetchStatus = "fetching"
    /\ HookResult.data = << <<101>> >>
    /\ ~HookResult.isLoading

\* C19: when the fetch of an entry that holds data fails, the entry keeps
\* the data and records the error; no step at all takes the data of an
\* entry away.
C19_FailureKeepsData ==
    [][\A k \in DOMAIN cache :
          /\ HoldsData(cache[k]) => HoldsData(cache'[k])
          /\ (FetcherThrows(k) /\ HoldsData(cache[k]) /\ cache'[k].fetchStatus = "idle") =>
                 /\ cache'[k].data = cache[k].data
                 /\ cache'[k].error = FetchError
                 /\ cache'[k].status = "error"]_vars

\* A refetch has failed for an entry that holds a list.
C19_Witness ==
    /\ last.op = "FetcherThrows"
    /\ Current.data = << <<101>> >>
    /\ Current.error = FetchError
    /\ Current.status = "error"
    /\ Current.fetchStatus = "idle"

\* C20: when the hook reports an error while it holds data, PullRequestList
\* shows the cards of that data with the error beside them; the error view
\* replaces the list only when there is no data.
C20_CardsKeptOnError ==
    (view.mounted /\ HookResult.error # <<>> /\ HoldsData(Current)) =>
        /\ PullRequestList(HookResult).cards = HookResult.data[1]
        /\ PullRequestList(HookResult).message = HookResult.error

\* The interval callback has just called the fetcher.
IntervalRefetch == last.op = "IntervalFires" /\ last.called # <<>>

ArrivesAtKey == Mount \/ Render(view.other)

C22_FirstFailureShowsError ==
    [][(FetcherThrows(CurrentKey) /\ view.mounted /\ ~HoldsData(Current)) =>
          /\ HookResult'.error = FetchError
          /\ HookResult'.data = <<>>
          /\ ~HookResult'.isLoading
          /\ PullRequestList(HookResult').shows = "error"]_vars

\* C22: when the fetcher rejects for an entry without data, the consumer of
\* that entry keeps seeing isLoading = true and no error while the cache
\* calls the fetcher again, up to 3 more times; once the last of these
\* calls has rejected, the consumer sees exactly the error the fetcher
\* threw, no data and isLoading = false, and PullRequestList shows the
\* error view with that error, without any card.
C22_LastFailureShowsError ==
    [][(FetcherThrows(CurrentKey) /\ view.mounted /\ ~HoldsData(Current)) =>
          IF Current.failureCount < 3
          THEN /\ HookResult'.isLoading
               /\ HookResult'.error = <<>>
               /\ PullRequestList(HookResult').shows = "loading"
          ELSE /\ HookResult'.error = FetchError
               /\ HookResult'.data = <<>>
               /\ ~HookResult'.isLoading
               /\ PullRequestList(HookResult').shows = "error"
               /\ PullRequestList(HookResult').message = FetchError
               /\ PullRequestList(HookResult').cards = <<>>]_vars

\* The load of the consumer's key has failed for good: the fetcher has
\* rejected four times and the error view is shown.
C22_Witness ==
    /\ last.op = "FetcherThrows"
    /\ last.called = <<>>
    /\ view.mounted
    /\ Current.status = "error"
    /\ Current.failureCount = 4
    /\ HookResult.data = <<>>
    /\ HookResult.error = FetchError
    /\ PullRequestList(HookResult).shows = "error"

\* The steps that may call the fetcher for an entry that is not being
\* fetched: a mount, a change of the parameters, the interval callback and
\* the return of the network.
FetchTriggers == {"Mount", "ChangeParams", "IntervalFires", "Reconnect"}

C23_LateResultNeverShown ==
    /\ []((view.mounted /\ HoldsData(Current)) => Current.from = <<view.params>>)
    /\ [][\A k \in DOMAIN cache, r \in ResultLists :
              (FetchSucceeds(k, r) /\ k # CurrentKey) =>
                  /\ HookResult' = HookResult
                  /\ cache'[k].from # <<view.params>>]_vars

\* The consumer has left a key while its fetch was in flight; the result
\* for that key has arrived, and the consumer still waits for its own.
C23_Witness ==
    /\ last.op = "FetchSucceeds"
    /\ view.mounted
    /\ HookResult.isLoading
    /\ HookResult.data = <<>>
    /\ QueryKey(view.other) \in DOMAIN cache
    /\ cache[QueryKey(view.other)].data = << <<101>> >>
    /\ cache[QueryKey(view.other)].age = 0
    /\ cache[QueryKey(view.other)].from = <<view.other>>

(***************************************************************************)
(* The App component and its stored filter preference (SpecApp).  A text   *)
(* is the sequence of its characters.                                      *)
(***************************************************************************)
STORAGE_KEY == "pr-dashboard-days-filter"

DEFAULT_DAYS == 14

DecimalDigits == <<"0", "1", "2", "3", "4", "5", "6", "7", "8", "9">>

IsDigit(c) == \E i \in 1..10 : DecimalDigits[i] = c

DigitValue(c) == (CHOOSE i \in 1..10 : DecimalDigits[i] = c) - 1

IsWhiteSpace(c) == c \in {" ", "\t", "\n"}

\* The text from its i-th character on.
TextFrom(text, i) == SubSeq(text, i, Len(text))

\* The number of characters at the start of text that are white space.
LeadingWhiteSpace(text) ==
    IF \A i \in 1..Len(text) : IsWhiteSpace(text[i]) THEN Len(text)
    ELSE (CHOOSE i \in 1..Len(text) :
              /\ ~IsWhiteSpace(text[i])
              /\ \A j \in 1..(i - 1) : IsWhiteSpace(text[j])) - 1

\* The number of characters at the start of text that are decimal digits.
LeadingDigits(text) ==
    IF \A i \in 1..Len(text) : IsDigit(text[i]) THEN Len(text)
    ELSE (CHOOSE i \in 1..Len(text) :
              /\ ~IsDigit(text[i])
              /\ \A j \in 1..(i - 1) : IsDigit(text[j])) - 1

\* The value of a sequence of decimal digits.
RECURSIVE ValueOfDigits(_)
ValueOfDigits(digits) ==
    IF Len(digits) = 0 THEN 0
    ELSE 10 * ValueOfDigits(SubSeq(digits, 1, Len(digits) - 1))
             + DigitValue(digits[Len(digits)])

\* A number as parseInt returns it: NaN or an integer.
NaN == [isNaN |-> TRUE, value |-> 0]

Num(n) == [isNaN |-> FALSE, value |-> n]

isNaN(x) == x.isNaN

\* parseInt(text, 10): leading white space is skipped, a sign is read, the
\* longest run of decimal digits that follows is the number and whatever
\* comes after it is ignored; without a digit there the result is NaN.
parseInt(text) ==
    LET trimmed == TextFrom(text, LeadingWhiteSpace(text) + 1)
        signed  == Len(trimmed) > 0 /\ trimmed[1] \in {"+", "-"}
        sign    == IF signed /\ trimmed[1] = "-" THEN -1 ELSE 1
        rest    == IF signed THEN TextFrom(trimmed, 2) ELSE trimmed
        n       == LeadingDigits(rest)
    IN  IF n = 0 THEN NaN ELSE Num(sign * ValueOfDigits(SubSeq(rest, 1, n)))

\* The decimal digits of a natural number.
RECURSIVE DigitsOf(_)
DigitsOf(n) ==
    IF n < 10 THEN <<DecimalDigits[n + 1]>>
    ELSE DigitsOf(n \div 10) \o <<DecimalDigits[(n % 10) + 1]>>

\* Number.prototype.toString() of an integer.
NumberToString(n) == IF n < 0 THEN <<"-">> \o DigitsOf(-n) ELSE DigitsOf(n)

NullText == <<"n", "u", "l", "l">>

AllText == <<"a", "l", "l">>

\* The initializer of the days state: the stored preference, 14 by default.
LoadDays(stored) ==
    IF stored = NoItem THEN DaysOf(DEFAULT_DAYS)
    ELSE IF stored[1] = NullText THEN DaysNull
    ELSE LET parsed == parseInt(stored[1])
         IN  IF isNaN(parsed) THEN DaysOf(DEFAULT_DAYS) ELSE DaysOf(parsed.value)

PersistedTextAll(days) ==
    IF IsNullDays(days) THEN AllText ELSE NumberToString(days[1])

\* The text the effect stores for the days state.
PersistedText(days) ==
    IF IsNullDays(days) THEN NullText ELSE NumberToString(days[1])

\* The values of the four options of the select.
OptionValues == {NumberToString(7), NumberToString(14), NumberToString(30), AllText}

\* handleChange: the value FilterControl hands to onChange for an option.
HandleChange(value) ==
    IF value = AllText THEN DaysNull ELSE DaysOf(parseInt(value).value)

\* Texts the store may hold when the application starts: what the
\* application writes itself, and what something else has left there.
ForeignTexts ==
    {<<>>, <<"a", "b", "c">>, AllText, <<"N", "a", "N">>, <<"-">>,
     <<"5">>, <<"0">>, <<"-", "3">>, <<"3", "6", "5">>, <<"0", "0", "7">>,
     <<"+", "7">>, <<" ", "3", "0">>, <<"1", "2", "a", "b", "c">>,
     <<"3", "0", " ", "d", "a", "y", "s">>, <<"d", "7">>,
     <<"7", " ">>, <<"\t", "1", "4">>, <<" ">>, <<"-", "-", "7">>, <<"+", "-", "7">>,
     <<"1", "s", "t">>, <<"2", "x">>, <<"7", "p", "x">>,
     <<"n", "u", "l", "l", " ">>, <<"N", "u", "l", "l">>, <<"t", "r", "u", "e">>,
     <<"1">>, <<"2", "1">>, <<"6", "0">>, <<"9", "0">>, <<"1", "0", "0">>,
     <<"-", "1", "4">>, <<"9", "9", "9", "9">>, <<"1", "4", "d">>, <<"+">>}

\* What the effect can have written: the text of each selectable value.
OwnTexts == {NumberToString(7), NumberToString(14), NumberToString(30), NullText}

StoredTexts == OwnTexts \cup ForeignTexts

\* The props App hands to PullRequestList, hence to the query key.
AppParams == [org |-> "pinggolf", teamName |-> "is-ping-core", days |-> app.days]

InitApp ==
    /\ server = [repos |-> <<>>, prs |-> <<>>]
    /\ fetch = [f \in Fetches |-> IdleFetch]
    /\ out = [status |-> "idle", value |-> <<>>, error |-> NoError]
    /\ call = <<>>
    /\ query = ""
    /\ now \in Instants
    /\ hist = NoHist
    /\ zone = UTCZone
    /\ cache = NoCache
    /\ view = NoView
    /\ last = NoStep
    /\ localStorage \in {NoItem} \cup {<<text>> : text \in StoredTexts}
    /\ app = NoApp

\* The page is opened: App renders for the first time, its days state is
\* initialized from the store, and the effect stores the state.
Start ==
    /\ ~app.running
    /\ LET days == LoadDays(localStorage)
       IN  /\ app' = [app EXCEPT !.running = TRUE, !.days = days]
           /\ localStorage' = <<PersistedText(days)>>
    /\ last' = Step("Start", <<>>)
    /\ UNCHANGED <<svcvars, cache, view>>

\* The user picks an option of the select: handleChange calls setDays, and
\* when the state has changed the effect stores it.
Select(value) ==
    /\ app.running
    /\ LET days == HandleChange(value)
       IN  /\ app' = [app EXCEPT !.days = days, !.selected = <<days>>]
           /\ localStorage' = IF days = app.days THEN localStorage
                              ELSE <<PersistedText(days)>>
    /\ last' = Step("Select", <<>>)
    /\ UNCHANGED <<svcvars, cache, view>>

\* The page is closed or reloaded: the component state is gone, the store
\* stays.
Close ==
    /\ app.running
    /\ app' = [app EXCEPT !.running = FALSE, !.days = <<>>]
    /\ last' = Step("Close", <<>>)
    /\ UNCHANGED <<svcvars, cache, view, localStorage>>

\* The user clears the site data while the page is closed: the item and
\* with it the remembered selection are gone.
Clear ==
    /\ ~app.running
    /\ localStorage # NoItem
    /\ localStorage' = NoItem
    /\ app' = [app EXCEPT !.selected = <<>>]
    /\ last' = Step("Clear", <<>>)
    /\ UNCHANGED <<svcvars, cache, view>>

\* Something else writes the item while the page is closed: another
\* version of the page, the developer tools.
Overwrite(text) ==
    /\ ~app.running
    /\ localStorage # <<text>>
    /\ localStorage' = <<text>>
    /\ app' = [app EXCEPT !.selected = <<>>]
    /\ last' = Step("Overwrite", <<>>)
    /\ UNCHANGED <<svcvars, cache, view>>

NextApp ==
    \/ Start
    \/ \E value \in OptionValues : Select(value)
    \/ Close
    \/ Clear
    \/ \E text \in StoredTexts : Overwrite(text)

SpecApp == InitApp /\ [][NextApp]_vars

\* The text, white space at its ends aside, is a sign or none followed by
\* decimal digits and nothing else.
IsNumeral(text) ==
    \E a, b \in 1..Len(text) :
        /\ a <= b
        /\ \A j \in 1..Len(text) : (j < a \/ j > b) => IsWhiteSpace(text[j])
        /\ LET core   == SubSeq(text, a, b)
               digits == IF core[1] \in {"+", "-"} THEN Tail(core) ELSE core
           IN  /\ Len(digits) > 0
               /\ \A k \in 1..Len(digits) : IsDigit(digits[k])

\* The text begins, after white space and at most one sign, with a decimal
\* digit.
HasLeadingInteger(text) ==
    \E i \in 1..Len(text) :
        /\ IsDigit(text[i])
        /\ \A j \in 1..(i - 1) :
               IsWhiteSpace(text[j]) \/ (j = i - 1 /\ text[j] \in {"+", "-"})

\* The store holds what the effect writes for the value last selected.
RemembersSelection ==
    app.selected # <<>> /\ localStorage = <<PersistedText(app.selected[1])>>

\* C25 as stated: every selection is written to the store and read back at
\* the next start; and a start with an empty store, or with a stored text
\* that is not a number, gives the default of 14 days.
C25_NonNumberGivesDefault ==
    [][/\ \A value \in OptionValues :
              Select(value) => localStorage' = <<PersistedText(app'.days)>>
       /\ (Start /\ app.selected # <<>>) => app'.days = app.selected[1]
       /\ (Start /\ localStorage = NoItem) => app'.days = DaysOf(14)
       /\ (/\ Start
           /\ localStorage # NoItem
           /\ localStorage # <<NullText>>
           /\ ~IsNumeral(localStorage[1])) => app'.days = DaysOf(14)]_vars

\* C25: every selection (7, 14, 30, no limit) is written to the store when
\* it is made, and the start that follows, the store untouched in between,
\* reads that value back; a start with an empty store gives 14 days, and so
\* does a start with a stored text other than 'null' that does not begin,
\* after white space and at most one sign, with a decimal digit.  A text
\* that does begin so gives a number, whatever follows the digits, and the
\* text of an integer gives that integer.
C25_SelectionRoundTrips ==
    [][/\ \A value \in OptionValues :
              Select(value) =>
                  /\ localStorage' = <<PersistedText(app'.days)>>
                  /\ app'.days \in {DaysOf(7), DaysOf(14), DaysOf(30), DaysNull}
                  /\ value = IF IsNullDays(app'.days) THEN AllText
                             ELSE NumberToString(app'.days[1])
       /\ (Start /\ app.selected # <<>>) =>
              /\ RemembersSelection
              /\ app'.days = app.selected[1]
       /\ (Start /\ localStorage = NoItem) => app'.days = DaysOf(14)
       /\ (/\ Start
           /\ localStorage # NoItem
           /\ localStorage # <<NullText>>
           /\ ~HasLeadingInteger(localStorage[1])) => app'.days = DaysOf(14)
       /\ (/\ Start
           /\ localStorage # NoItem
           /\ HasLeadingInteger(localStorage[1])) =>
              /\ ~IsNullDays(app'.days)
              /\ \A n \in -20..400 :
                     localStorage[1] = NumberToString(n) => app'.days = DaysOf(n)]_vars

\* The page has been opened again after "All time" was selected: the days
\* state is null again.
C25_Witness ==
    /\ last.op = "Start"
    /\ app.running
    /\ app.selected = <<DaysNull>>
    /\ app.days = DaysNull
    /\ localStorage = <<NullText>>

\* C26: while the application runs, the days value in the props of
\* PullRequestList, hence in the query key, is 7, 14, 30 or null.
C26_DaysAlwaysSelectable ==
    app.running =>
        QueryKey(AppParams)[4] \in {DaysOf(7), DaysOf(14), DaysOf(30), DaysNull}

(***************************************************************************)
(* The states of the pull requests surfaced, and what the search query     *)
(* depends on (SpecSearch).                                                *)
(***************************************************************************)
\* C27: the search that searchTeamPullRequests starts carries is:open, so
\* whatever open and closed pull requests the organization holds, the items
\* a search response delivers, the list searchOrgPullRequests resolves with
\* and the list searchTeamPullRequests returns hold pull requests of state
\* 'open' only, each with the state of its raw item.
C27_OnlyOpenSurfaced ==
    /\ call # <<>> => IsOpenQuery(query)
    /\ \A i \in 1..Len(fetch["prs"].items) : fetch["prs"].items[i].state = "open"
    /\ fetch["prs"].status = "fulfilled" =>
           /\ Len(fetch["prs"].value) = Len(fetch["prs"].items)
           /\ \A i \in 1..Len(fetch["prs"].value) :
                  /\ fetch["prs"].value[i].state = "open"
                  /\ fetch["prs"].value[i].state = fetch["prs"].items[i].state
    /\ out.status = "returned" =>
           \A i \in 1..Len(out.value) : out.value[i].state = "open"

\* A team whose repository holds an open and a closed pull request: the
\* call has returned the open one alone.
C27_Witness ==
    /\ out.status = "returned"
    /\ Len(out.value) = 1
    /\ out.value[1].state = "open"
    /\ Len(server.prs) = 2
    /\ \E i \in 1..2 :
           /\ server.prs[i].state = "closed"
           /\ RepoFullName(server.prs[i].repository_url) \in Range(fetch["repos"].value)

\* The text q holds 'repo:' somewhere.
NamesRepository(q) == \E i \in 1..(Len(q) - 4) : SubSeq(q, i, i + 4) = "repo:"

\* C29: the query of the search is a function of the organization, the
\* days and the clock alone: it is the organization-wide query of
\* searchOrgPullRequests for every team name the call may carry and for
\* every repository list the team may have, before and after that list is
\* known, and it names no repository.
C29_QueryIgnoresTeam ==
    call # <<>> =>
        /\ query = OrgQuery(call[1].org, call[1].days, now)
        /\ \A teamName \in SearchTeams :
               query = TeamSearchQuery(call[1].org, teamName, call[1].days, now)
        /\ ~NamesRepository(query)

\* The call for the team 'web', whose two repositories are known by now.
C29_Witness ==
    /\ call # <<>>
    /\ call[1].teamName = "web"
    /\ fetch["repos"].status = "fulfilled"
    /\ Len(fetch["repos"].value) = 2
    /\ fetch["prs"].status = "pending"
    /\ query = "is:pr is:open org:acme"

(***************************************************************************)
(* The repository names of a normalised item (SpecNormalize).              *)
(***************************************************************************)
\* C28: for every raw item, the normalised repository.full_name is the last
\* two '/'-separated segments of repository_url, in their order, and
\* repository.name is the last segment, so full_name ends with its '/' and
\* name; for the URL the API gives the repository owner/name, full_name is
\* the full_name that getTeamRepositories returns for that repository, so
\* the team filter keeps the item for a team that has the repository and
\* drops it for a team whose repository differs in owner or name.
C28_FullNameIsLastTwoSegments ==
    (call # <<>> /\ out.status = "returned") =>
        LET url  == call[1].item.repository_url
            repo == out.value.repository
        IN  /\ Len(repo.full_name) = 2
            /\ repo.full_name[1] = url[Len(url) - 1]
            /\ repo.full_name[2] = url[Len(url)]
            /\ repo.name = url[Len(url)]
            /\ repo.full_name[Len(repo.full_name)] = repo.name
            /\ \A owner \in Orgs, name \in {"widgets", "repo1"} :
                   LET teamRepos == RepoFullNames(<<RepoRecord(owner, name)>>)
                   IN  /\ url = RepoApiUrl(owner, name) =>
                              /\ repo.full_name = teamRepos[1]
                              /\ FilterTeamPRs(teamRepos, <<out.value>>) = <<out.value>>
                       /\ (url[Len(url) - 1] # owner \/ url[Len(url)] # name) =>
                              FilterTeamPRs(teamRepos, <<out.value>>) = <<>>

\* The item of pinggolf/repo1 has been normalised.
C28_Witness ==
    /\ call # <<>>
    /\ out.status = "returned"
    /\ call[1].item.repository_url = RepoApiUrl("pinggolf", "repo1")
    /\ out.value.repository.full_name = <<"pinggolf", "repo1">>
    /\ out.value.repository.name = "repo1"

(***************************************************************************)
(* searchUserPullRequests (SpecUser): server.prs holds the pull requests   *)
(* of the user, newest first.                                              *)
(***************************************************************************)
ResponseItemsAllPages(list) == list

\* response.data.items of the one request octokit.search.issuesAndPullRequests
\* makes with per_page: 100: the first page of the matches.
ResponseItems(list) == PageOf(list, 1)

InitUser ==
    /\ server \in [repos : {<<>>}, prs : PRLists]
    /\ fetch = [f \in Fetches |-> IdleFetch]
    /\ out = [status |-> "idle", value |-> <<>>, error |-> NoError]
    /\ call = <<>>
    /\ query = ""
    /\ now \in Instants
    /\ hist = NoHist
    /\ zone = UTCZone
    /\ cache = NoCache
    /\ view = NoView
    /\ last = NoStep
    /\ localStorage = NoItem
    /\ app = NoApp

\* searchUserPullRequests(username, days) up to its await: the query is
\* built and the request for the first page is sent.
CallUser(username, days) ==
    /\ call = <<>>
    /\ call' = <<[fn |-> "searchUserPullRequests", who |-> username, days |-> days]>>
    /\ query' = UserQuery(username, days, now)
    /\ fetch' = [fetch EXCEPT !["prs"] = [IdleFetch EXCEPT !.status = "pending", !.page = 1]]
    /\ out' = Pending
    /\ UNCHANGED <<server, now, hist, zone, cache, view, last, localStorage, app>>

\* The response arrives: its items are mapped and returned, whether or not
\* it announces a next page.
UserPageOk ==
    /\ call # <<>>
    /\ fetch["prs"].status = "pending"
    /\ LET items == ResponseItems(SearchMatches(query, server.prs))
       IN  /\ fetch' = [fetch EXCEPT !["prs"].status = "fulfilled",
                                     !["prs"].items = items,
                                     !["prs"].value = ToPullRequests(items)]
           /\ out' = Returned(ToPullRequests(items))
           /\ hist' = [hist EXCEPT !.pages["prs"] = Append(@, Len(items)),
                                   !.order = Append(@, "prs")]
    /\ UNCHANGED <<server, call, query, now, zone, cache, view, last, localStorage, app>>

\* The request fails: the catch block logs the error and throws it again.
UserPageFail(kind) ==
    /\ call # <<>>
    /\ fetch["prs"].status = "pending"
    /\ LET error == ApiError("prs", fetch["prs"].page, kind)
       IN  /\ fetch' = [fetch EXCEPT !["prs"].status = "rejected", !["prs"].error = error]
           /\ out' = Thrown(error)
           /\ hist' = [hist EXCEPT !.order = Append(@, "prs"), !.raised["prs"] = error]
    /\ UNCHANGED <<server, call, query, now, zone, cache, view, last, localStorage, app>>

NextUser ==
    \/ \E username \in Usernames, days \in DaysInputs : CallUser(username, days)
    \/ UserPageOk
    \/ \E kind \in ErrorKinds : UserPageFail(kind)

SpecUser == InitUser /\ [][NextUser]_vars

\* C30: searchUserPullRequests sends one request, for page 1 with 100 items
\* a page, and never another; what it returns is the normalised items of
\* that page: the first 100 matches in the order of the search, hence at
\* most 100 pull requests and fewer than the matches when more than 100
\* match.
C30_UserSearchReturnsFirstPageOnly ==
    /\ call # <<>> =>
           /\ fetch["prs"].page = 1
           /\ fetch["repos"] = IdleFetch
           /\ Len(hist.pages["prs"]) <= 1
    /\ out.status = "returned" =>
           LET matches == SearchMatches(query, server.prs)
           IN  /\ hist.pages["prs"] = <<Len(out.value)>>
               /\ Len(out.value) <= 100
               /\ Len(out.value) = Min(100, Len(matches))
               /\ \A i \in 1..Len(out.value) : out.value[i] = ToPullRequest(matches[i])

\* More than 100 pull requests match and 100 have been returned.
C30_Witness ==
    /\ out.status = "returned"
    /\ Len(server.prs) > 100
    /\ Len(out.value) = 100
    /\ out.value[100] = ToPullRequest(server.prs[100])

====
